---- MODULE Spec2Model ----
(***************************************************************************)
(* TimezoneTranslator: UTC <-> local conversion with DST rules and a       *)
(* one-interval offset cache (src/src/TimezoneTranslator.cpp, .h).         *)
(*                                                                         *)
(* Number representation.  TLC integers are 32 bit, the program's          *)
(* timestamps are uint64_t milliseconds.  A millisecond value v is held as *)
(* the pair <<q, r>> with v = q*60000 + r, q whole minutes and r the       *)
(* milliseconds inside the minute (0..59999).  Every offset the program    *)
(* adds is offset_min*60000, i.e. whole minutes, so the pair arithmetic is *)
(* exact.  The wrap of uint64_t (2^64 ms) is placed at W64 minutes and the *)
(* wrap of uint32_t day counts (2^32 days) at W32 days; W32 is a power of  *)
(* two congruent to 2^32 modulo 7 (weekdays of wrapped day counts agree    *)
(* with the program's) and W32 days lie below W64 minutes, as 2^32 days    *)
(* lie below 2^64 ms.  A 32-bit seconds value s is held as <<m, c>> with   *)
(* s = m*60 + c.                                                           *)
(***************************************************************************)
EXTENDS Integers, Sequences, FiniteSets, TLC

VARIABLES _tz, _cache, call, cold, configured, scan

vars == <<_tz, _cache, call, cold, configured, scan>>

---------------------------------------------------------------------------
(* Fixed-width arithmetic                                                  *)

W64 == 2000000000

W32 == 1048576

\* v = q*60000 + r as a uint64_t
Ms(q, r) == <<q % W64, r>>

\* uint64_t + (int64_t)min * 60000LL
Add64(v, min) == <<(v[1] + min) % W64, v[2]>>

\* uint64_t - (int64_t)min * 60000LL
Sub64(v, min) == <<(v[1] - min) % W64, v[2]>>

\* unsigned a < b
Lt64(a, b) == a[1] < b[1] \/ (a[1] = b[1] /\ a[2] < b[2])

\* unsigned a >= b
Ge64(a, b) == ~Lt64(a, b)

\* (uint32_t)(v / 86400000ULL)
DaysOf(v) == (v[1] \div 1440) % W32

---------------------------------------------------------------------------
(* Data model                                                              *)

TimezoneDefinition(sm, sw, em, ew, wd, sh, eh, off, offDst) ==
    [dst_start_month |-> sm, dst_start_week |-> sw, dst_end_month |-> em,
     dst_end_week |-> ew, dst_weekday |-> wd, dst_start_hour |-> sh,
     dst_end_hour |-> eh, offset_min |-> off, offset_dst_min |-> offDst]

DstCache(from, until, off) ==
    [valid_from_ms |-> from, valid_until_ms |-> until, current_offset |-> off]

UNIX_OFFSET_2020 == <<26297280, 0>>

MONTH_DAYS == <<31, 28, 31, 30, 31, 30, 31, 31, 30, 31, 30, 31>>

---------------------------------------------------------------------------
(* Calendar arithmetic                                                     *)

isLeapYear(year) ==
    IF year % 400 = 0 THEN 1
    ELSE IF year % 100 = 0 THEN 0
    ELSE IF year % 4 = 0 THEN 1
    ELSE 0

getDaysInMonth(month, year) ==
    IF month < 1 \/ month > 12 THEN 0
    ELSE IF isLeapYear(year) # 0 /\ month = 2 THEN 29
    ELSE MONTH_DAYS[month]

getWeekdayFromDays(daysSinceEpoch) ==
    (((daysSinceEpoch + 4) % W32) % 7) % 256

\* uint32_t leaps = (years + 1) / 4 - (years + 69) / 100 + (years + 369) / 400
leapsBefore(years) ==
    ( ((years + 1) % W32) \div 4
      - ((years + 69) % W32) \div 100
      + ((years + 369) % W32) \div 400 ) % W32

RECURSIVE dateToDaysMonths(_, _, _, _)
\* for (uint8_t m = 1; m < month; m++) { days += MONTH_DAYS[m-1]; if (m == 2 && leap) days += 1; }
dateToDaysMonths(m, month, year, days) ==
    IF m < month
    THEN dateToDaysMonths(m + 1, month, year,
             (days + MONTH_DAYS[m]
                   + (IF m = 2 /\ isLeapYear(year) # 0 THEN 1 ELSE 0)) % W32)
    ELSE days

dateToDays(year, month, day) ==
    LET years == (year - 1970) % W32
        days  == (years * 365 + leapsBefore(years)) % W32
    IN  (dateToDaysMonths(1, month, year, days) + (day - 1)) % W32

dateToMs(year, month, day, hour, minute, second) ==
    LET sub == second * 1000
    IN  Ms(dateToDays(year, month, day) * 1440 + hour * 60 + minute
              + sub \div 60000,
           sub % 60000)

RECURSIVE yearFromDaysSearch(_, _, _)
\* while (lo < hi) { mid = lo + (hi - lo) / 2; ... }
yearFromDaysSearch(lo, hi, days) ==
    IF lo < hi
    THEN LET mid == lo + (hi - lo) \div 2
             y   == mid - 1970
         IN  IF y * 365 + leapsBefore(y) > days
             THEN yearFromDaysSearch(lo, mid, days)
             ELSE yearFromDaysSearch(mid + 1, hi, days)
    ELSE lo

yearFromDays(days) == yearFromDaysSearch(1971, 2501, days) - 1

yearFromMs(utcMs) == yearFromDays(DaysOf(utcMs))

---------------------------------------------------------------------------
(* DST rule evaluator                                                      *)

RECURSIVE switchDayForward(_, _, _)
\* while (wd != tz.dst_weekday) { switchDay++; wd = (wd + 1) % 7; }
switchDayForward(switchDay, wd, tz) ==
    IF wd # tz.dst_weekday
    THEN switchDayForward((switchDay + 1) % 256, (wd + 1) % 7, tz)
    ELSE switchDay

RECURSIVE switchDayBackward(_, _, _)
\* while (lastWeekday != tz.dst_weekday) { switchDay--; lastWeekday = (lastWeekday == 0) ? 6 : lastWeekday - 1; }
switchDayBackward(switchDay, lastWeekday, tz) ==
    IF lastWeekday # tz.dst_weekday
    THEN switchDayBackward((switchDay - 1) % 256,
                           IF lastWeekday = 0 THEN 6 ELSE lastWeekday - 1, tz)
    ELSE switchDay

\* faulty variant: the nth occurrence is counted from the week after the first
getDstSwitchDay_weekOff(year, month, tz, isStart) ==
    LET targetWeek   == IF isStart THEN tz.dst_start_week ELSE tz.dst_end_week
        firstWeekday == getWeekdayFromDays(dateToDays(year, month, 1))
    IN  IF targetWeek > 0
        THEN (switchDayForward(1, firstWeekday, tz) + 7 * targetWeek) % 256
        ELSE LET daysInM     == getDaysInMonth(month, year)
                 lastWeekday == ((firstWeekday + daysInM - 1) % 7) % 256
             IN  switchDayBackward(daysInM, lastWeekday, tz)

getDstSwitchDay(year, month, tz, isStart) ==
    LET targetWeek   == IF isStart THEN tz.dst_start_week ELSE tz.dst_end_week
        firstWeekday == getWeekdayFromDays(dateToDays(year, month, 1))
    IN  IF targetWeek > 0
        THEN (switchDayForward(1, firstWeekday, tz) + 7 * (targetWeek - 1)) % 256
        ELSE LET daysInM     == getDaysInMonth(month, year)
                 lastWeekday == ((firstWeekday + daysInM - 1) % 7) % 256
             IN  switchDayBackward(daysInM, lastWeekday, tz)

computeDstStartMs(year, tz) ==
    LET startDay   == getDstSwitchDay(year, tz.dst_start_month, tz, TRUE)
        startLocal == dateToMs(year, tz.dst_start_month, startDay,
                               tz.dst_start_hour, 0, 0)
    IN  Sub64(startLocal, tz.offset_min)

\* faulty variant: the end transition is taken in standard time
computeDstEndMs_standardOffset(year, tz) ==
    LET endDay   == getDstSwitchDay(year, tz.dst_end_month, tz, FALSE)
        endLocal == dateToMs(year, tz.dst_end_month, endDay,
                             tz.dst_end_hour, 0, 0)
    IN  Sub64(endLocal, tz.offset_min)

computeDstEndMs(year, tz) ==
    LET endDay   == getDstSwitchDay(year, tz.dst_end_month, tz, FALSE)
        endLocal == dateToMs(year, tz.dst_end_month, endDay,
                             tz.dst_end_hour, 0, 0)
    IN  Sub64(endLocal, tz.offset_dst_min)

---------------------------------------------------------------------------
(* Offset resolver.  The C++ functions return the offset and update the    *)
(* cache passed by reference; the operators return both as a record        *)
(* [ret |-> offset in minutes, cache |-> the cache on return].             *)

\* utcMs >= cache.valid_from_ms && utcMs < cache.valid_until_ms
cacheHit(utcMs, cache) ==
    Ge64(utcMs, cache.valid_from_ms) /\ Lt64(utcMs, cache.valid_until_ms)

\* faulty variant: a rule without DST answers with its DST offset field
getOffsetForUtc_dstField(utcMs, tz, cache) ==
    IF tz.dst_start_month = 0
    THEN [ret |-> tz.offset_dst_min, cache |-> cache]
    ELSE IF cacheHit(utcMs, cache)
    THEN [ret |-> cache.current_offset, cache |-> cache]
    ELSE
      LET year       == yearFromMs(utcMs)
          dstStartMs == computeDstStartMs(year, tz)
          dstEndMs   == computeDstEndMs(year, tz)
          c == IF Lt64(dstStartMs, dstEndMs)
               THEN IF Lt64(utcMs, dstStartMs)
                    THEN DstCache(computeDstEndMs(year - 1, tz), dstStartMs,
                                  tz.offset_min)
                    ELSE IF Lt64(utcMs, dstEndMs)
                    THEN DstCache(dstStartMs, dstEndMs, tz.offset_dst_min)
                    ELSE DstCache(dstEndMs, computeDstStartMs(year + 1, tz),
                                  tz.offset_min)
               ELSE IF Lt64(utcMs, dstEndMs)
                    THEN DstCache(computeDstStartMs(year - 1, tz), dstEndMs,
                                  tz.offset_dst_min)
                    ELSE IF Lt64(utcMs, dstStartMs)
                    THEN DstCache(dstEndMs, dstStartMs, tz.offset_min)
                    ELSE DstCache(dstStartMs, computeDstEndMs(year + 1, tz),
                                  tz.offset_dst_min)
      IN  [ret |-> c.current_offset, cache |-> c]

\* faulty variant: every rule is treated as a northern-hemisphere rule
getOffsetForUtc_northernOnly(utcMs, tz, cache) ==
    IF tz.dst_start_month = 0
    THEN [ret |-> tz.offset_min, cache |-> cache]
    ELSE IF cacheHit(utcMs, cache)
    THEN [ret |-> cache.current_offset, cache |-> cache]
    ELSE
      LET year       == yearFromMs(utcMs)
          dstStartMs == computeDstStartMs(year, tz)
          dstEndMs   == computeDstEndMs(year, tz)
          c == IF TRUE
               THEN IF Lt64(utcMs, dstStartMs)
                    THEN DstCache(computeDstEndMs(year - 1, tz), dstStartMs,
                                  tz.offset_min)
                    ELSE IF Lt64(utcMs, dstEndMs)
                    THEN DstCache(dstStartMs, dstEndMs, tz.offset_dst_min)
                    ELSE DstCache(dstEndMs, computeDstStartMs(year + 1, tz),
                                  tz.offset_min)
               ELSE IF Lt64(utcMs, dstEndMs)
                    THEN DstCache(computeDstStartMs(year - 1, tz), dstEndMs,
                                  tz.offset_dst_min)
                    ELSE IF Lt64(utcMs, dstStartMs)
                    THEN DstCache(dstEndMs, dstStartMs, tz.offset_min)
                    ELSE DstCache(dstStartMs, computeDstEndMs(year + 1, tz),
                                  tz.offset_dst_min)
      IN  [ret |-> c.current_offset, cache |-> c]

getOffsetForUtc(utcMs, tz, cache) ==
    IF tz.dst_start_month = 0
    THEN [ret |-> tz.offset_min, cache |-> cache]
    ELSE IF cacheHit(utcMs, cache)
    THEN [ret |-> cache.current_offset, cache |-> cache]
    ELSE
      LET year       == yearFromMs(utcMs)
          dstStartMs == computeDstStartMs(year, tz)
          dstEndMs   == computeDstEndMs(year, tz)
          c == IF Lt64(dstStartMs, dstEndMs)
               THEN IF Lt64(utcMs, dstStartMs)
                    THEN DstCache(computeDstEndMs(year - 1, tz), dstStartMs,
                                  tz.offset_min)
                    ELSE IF Lt64(utcMs, dstEndMs)
                    THEN DstCache(dstStartMs, dstEndMs, tz.offset_dst_min)
                    ELSE DstCache(dstEndMs, computeDstStartMs(year + 1, tz),
                                  tz.offset_min)
               ELSE IF Lt64(utcMs, dstEndMs)
                    THEN DstCache(computeDstStartMs(year - 1, tz), dstEndMs,
                                  tz.offset_dst_min)
                    ELSE IF Lt64(utcMs, dstStartMs)
                    THEN DstCache(dstEndMs, dstStartMs, tz.offset_min)
                    ELSE DstCache(dstStartMs, computeDstEndMs(year + 1, tz),
                                  tz.offset_dst_min)
      IN  [ret |-> c.current_offset, cache |-> c]

\* faulty variant: the northern wall-clock test joins its two comparisons with "or"
getOffsetForLocal_orInNorthern(localMs, tz, cache, preferDst) ==
    IF tz.dst_start_month = 0
    THEN [ret |-> tz.offset_min, cache |-> cache]
    ELSE
      LET approxUtc == Sub64(localMs, tz.offset_min)
      IN  IF cacheHit(approxUtc, cache)
          THEN [ret |-> cache.current_offset, cache |-> cache]
          ELSE
            LET year       == yearFromMs(approxUtc)
                dstStartMs == computeDstStartMs(year, tz)
                dstEndMs   == computeDstEndMs(year, tz)
                c == IF Lt64(dstStartMs, dstEndMs)
                     THEN IF Lt64(approxUtc, dstStartMs)
                          THEN DstCache(computeDstEndMs(year - 1, tz),
                                        dstStartMs, tz.offset_min)
                          ELSE IF Lt64(approxUtc, dstEndMs)
                          THEN DstCache(dstStartMs, dstEndMs, tz.offset_dst_min)
                          ELSE DstCache(dstEndMs,
                                        computeDstStartMs(year + 1, tz),
                                        tz.offset_min)
                     ELSE IF Lt64(approxUtc, dstEndMs)
                          THEN DstCache(computeDstStartMs(year - 1, tz),
                                        dstEndMs, tz.offset_dst_min)
                          ELSE IF Lt64(approxUtc, dstStartMs)
                          THEN DstCache(dstEndMs, dstStartMs, tz.offset_min)
                          ELSE DstCache(dstStartMs,
                                        computeDstEndMs(year + 1, tz),
                                        tz.offset_dst_min)
                dstStartLocal == Add64(dstStartMs, tz.offset_min)
                dstEndLocal   == Add64(dstEndMs, tz.offset_dst_min)
                off == IF Lt64(dstStartMs, dstEndMs)
                       THEN IF Ge64(localMs, dstStartLocal)
                               \/ Lt64(localMs, dstEndLocal)
                            THEN tz.offset_dst_min ELSE tz.offset_min
                       ELSE IF Ge64(localMs, dstStartLocal)
                               \/ Lt64(localMs, dstEndLocal)
                            THEN tz.offset_dst_min ELSE tz.offset_min
            IN  [ret |-> off, cache |-> c]

\* preferDst is a parameter of the declaration (TimezoneTranslator.h:278);
\* the definition (TimezoneTranslator.cpp:325) has no such parameter and
\* never reads it.
getOffsetForLocal(localMs, tz, cache, preferDst) ==
    IF tz.dst_start_month = 0
    THEN [ret |-> tz.offset_min, cache |-> cache]
    ELSE
      LET approxUtc == Sub64(localMs, tz.offset_min)
      IN  IF cacheHit(approxUtc, cache)
          THEN [ret |-> cache.current_offset, cache |-> cache]
          ELSE
            LET year       == yearFromMs(approxUtc)
                dstStartMs == computeDstStartMs(year, tz)
                dstEndMs   == computeDstEndMs(year, tz)
                c == IF Lt64(dstStartMs, dstEndMs)
                     THEN IF Lt64(approxUtc, dstStartMs)
                          THEN DstCache(computeDstEndMs(year - 1, tz),
                                        dstStartMs, tz.offset_min)
                          ELSE IF Lt64(approxUtc, dstEndMs)
                          THEN DstCache(dstStartMs, dstEndMs, tz.offset_dst_min)
                          ELSE DstCache(dstEndMs,
                                        computeDstStartMs(year + 1, tz),
                                        tz.offset_min)
                     ELSE IF Lt64(approxUtc, dstEndMs)
                          THEN DstCache(computeDstStartMs(year - 1, tz),
                                        dstEndMs, tz.offset_dst_min)
                          ELSE IF Lt64(approxUtc, dstStartMs)
                          THEN DstCache(dstEndMs, dstStartMs, tz.offset_min)
                          ELSE DstCache(dstStartMs,
                                        computeDstEndMs(year + 1, tz),
                                        tz.offset_dst_min)
                dstStartLocal == Add64(dstStartMs, tz.offset_min)
                dstEndLocal   == Add64(dstEndMs, tz.offset_dst_min)
                off == IF Lt64(dstStartMs, dstEndMs)
                       THEN IF Ge64(localMs, dstStartLocal)
                               /\ Lt64(localMs, dstEndLocal)
                            THEN tz.offset_dst_min ELSE tz.offset_min
                       ELSE IF Ge64(localMs, dstStartLocal)
                               \/ Lt64(localMs, dstEndLocal)
                            THEN tz.offset_dst_min ELSE tz.offset_min
            IN  [ret |-> off, cache |-> c]

---------------------------------------------------------------------------
(* Translator facade.  Operations on the instance take the instance's rule *)
(* and cache and return the fields they leave behind.                      *)

\* TimezoneTranslator::TimezoneTranslator(): _tz
DefaultTz == TimezoneDefinition(0, 0, 0, 0, 0, 0, 0, 0, 0)

\* TimezoneTranslator::TimezoneTranslator(): _cache, also "invalidate cache"
EmptyCache == DstCache(<<0, 0>>, <<0, 0>>, 0)

\* faulty variant: the rule is stored before the end month is checked
setLocalTimezone_storesBeforeCheck(tz, curTz, curCache) ==
    IF tz.dst_start_month > 12 \/ tz.dst_end_month > 12
    THEN [ret |-> FALSE, tz |-> curTz, cache |-> curCache]
    ELSE IF tz.dst_start_month # 0 /\ tz.dst_end_month = 0
    THEN [ret |-> FALSE, tz |-> tz, cache |-> EmptyCache]
    ELSE [ret |-> TRUE, tz |-> tz, cache |-> EmptyCache]

\* faulty variant: start month 0 with an end month is refused
setLocalTimezone_strict(tz, curTz, curCache) ==
    IF tz.dst_start_month > 12 \/ tz.dst_end_month > 12
    THEN [ret |-> FALSE, tz |-> curTz, cache |-> curCache]
    ELSE IF (tz.dst_start_month = 0) # (tz.dst_end_month = 0)
    THEN [ret |-> FALSE, tz |-> curTz, cache |-> curCache]
    ELSE [ret |-> TRUE, tz |-> tz, cache |-> EmptyCache]

\* faulty variant: the cache survives a successful call
setLocalTimezone_keepsCache(tz, curTz, curCache) ==
    IF tz.dst_start_month > 12 \/ tz.dst_end_month > 12
    THEN [ret |-> FALSE, tz |-> curTz, cache |-> curCache]
    ELSE IF tz.dst_start_month # 0 /\ tz.dst_end_month = 0
    THEN [ret |-> FALSE, tz |-> curTz, cache |-> curCache]
    ELSE [ret |-> TRUE, tz |-> tz, cache |-> curCache]

setLocalTimezone(tz, curTz, curCache) ==
    IF tz.dst_start_month > 12 \/ tz.dst_end_month > 12
    THEN [ret |-> FALSE, tz |-> curTz, cache |-> curCache]
    ELSE IF tz.dst_start_month # 0 /\ tz.dst_end_month = 0
    THEN [ret |-> FALSE, tz |-> curTz, cache |-> curCache]
    ELSE [ret |-> TRUE, tz |-> tz, cache |-> EmptyCache]

\* utcToLocal(uint64_t utcMs, const TimezoneDefinition& tz)
utcToLocalTz(utcMs, tz) ==
    IF tz.dst_start_month = 0
    THEN Add64(utcMs, tz.offset_min)
    ELSE Add64(utcMs, getOffsetForUtc(utcMs, tz, EmptyCache).ret)

\* utcToLocal(uint64_t utcMs)
utcToLocal(utcMs, curTz, curCache) ==
    LET r == getOffsetForUtc(utcMs, curTz, curCache)
    IN  [ret |-> Add64(utcMs, r.ret), cache |-> r.cache]

\* localToUtc(uint64_t localMs, const TimezoneDefinition& tz[, bool preferDst]):
\* preferDst is declared (TimezoneTranslator.h:185) and the definition
\* (TimezoneTranslator.cpp:64) does not take it.
localToUtcTz(localMs, tz, preferDst) ==
    IF tz.dst_start_month = 0
    THEN Sub64(localMs, tz.offset_min)
    ELSE Sub64(localMs, getOffsetForLocal(localMs, tz, EmptyCache, preferDst).ret)

\* localToUtc(uint64_t localMs[, bool preferDst])
localToUtc(localMs, curTz, curCache, preferDst) ==
    LET r == getOffsetForLocal(localMs, curTz, curCache, preferDst)
    IN  [ret |-> Sub64(localMs, r.ret), cache |-> r.cache]

\* (uint64_t)sec * 1000ULL for sec = m*60 + c seconds
SecToMs(m, c) == Ms(m + c \div 60, (c % 60) * 1000)

\* faulty variant: the threshold itself is taken for a rolled-over value
normalize32_inclusive(utcSec) ==
    IF ~Lt64(UNIX_OFFSET_2020, utcSec)
    THEN SecToMs(utcSec[1] + 71582788, utcSec[2] + 16)
    ELSE SecToMs(utcSec[1], utcSec[2])

\* 4294967296ULL seconds = 71582788 min 16 s
normalize32(utcSec) ==
    IF Lt64(utcSec, UNIX_OFFSET_2020)
    THEN SecToMs(utcSec[1] + 71582788, utcSec[2] + 16)
    ELSE SecToMs(utcSec[1], utcSec[2])

\* utcToLocal(uint32_t utcSec, const TimezoneDefinition& tz)
utcToLocal32Tz(utcSec, tz) == utcToLocalTz(normalize32(utcSec), tz)

\* utcToLocal(uint32_t utcSec)
utcToLocal32(utcSec, curTz, curCache) ==
    utcToLocal(normalize32(utcSec), curTz, curCache)

\* localToUtc(uint32_t localSec, const TimezoneDefinition& tz[, bool prefer_dst])
localToUtc32Tz(localSec, tz, preferDst) ==
    localToUtcTz(normalize32(localSec), tz, preferDst)

\* localToUtc(uint32_t localSec[, bool prefer_dst])
localToUtc32(localSec, curTz, curCache, preferDst) ==
    localToUtc(normalize32(localSec), curTz, curCache, preferDst)

---------------------------------------------------------------------------
(* Inputs                                                                  *)

\* TimezoneTranslator.h: America/New_York example
tdEST == TimezoneDefinition(3, 2, 11, 1, 0, 2, 2, -300, -240)

\* TimezoneTranslator.h: Australia/Sydney example
tdAEST == TimezoneDefinition(10, 1, 4, 1, 0, 2, 3, 600, 660)

\* TimezoneTranslator.h: Asia/Kolkata example
tdIST == TimezoneDefinition(0, 0, 0, 0, 0, 0, 0, 330, 330)

\* Central European Time: last Sunday of March 02:00 / October 03:00
tdCET == TimezoneDefinition(3, 0, 10, 0, 0, 2, 3, 60, 120)

\* Antarctica/Troll: a DST shift of two hours
tdTroll == TimezoneDefinition(3, 0, 10, 0, 0, 1, 3, 0, 120)

\* no DST (start month 0), the unused DST fields set
tdOdd == TimezoneDefinition(0, 0, 5, 0, 0, 0, 0, -210, -150)

DstRules == {tdEST, tdAEST, tdCET, tdTroll}

FixedRules == {DefaultTz, tdIST, tdOdd}

ValidRules == DstRules \cup FixedRules

\* rules setLocalTimezone has to refuse
InvalidRules ==
    { TimezoneDefinition(13, 2, 11, 1, 0, 2, 2, -300, -240),
      TimezoneDefinition(3, 2, 13, 1, 0, 2, 2, -300, -240),
      TimezoneDefinition(3, 2, 0, 1, 0, 2, 2, -300, -240),
      TimezoneDefinition(0, 0, 255, 0, 0, 0, 0, 60, 60),
      TimezoneDefinition(255, 0, 0, 0, 0, 0, 0, 60, 60) }

\* half-hour steps sampled on each side of a transition
HalfHours == 3

\* the millisecond before v / after v
MsBefore(v) == IF v[2] = 0 THEN <<(v[1] - 1) % W64, 59999>> ELSE <<v[1], v[2] - 1>>

MsAfter(v) == IF v[2] = 59999 THEN <<(v[1] + 1) % W64, 0>> ELSE <<v[1], v[2] + 1>>

\* |offset_dst_min - offset_min|
DstShift(tz) ==
    IF tz.offset_dst_min >= tz.offset_min
    THEN tz.offset_dst_min - tz.offset_min
    ELSE tz.offset_min - tz.offset_dst_min

\* instants around the transition x of rule tz: half-hour steps, the
\* millisecond before x, and the first millisecond more than one hour, and
\* more than the rule's DST shift, away from x
Near(x, tz) ==
    { Add64(x, 30 * k) : k \in (0 - HalfHours)..HalfHours }
      \cup { MsBefore(x) }
      \cup { MsAfter(Add64(x, d)) : d \in {60, DstShift(tz)} }
      \cup { MsBefore(Sub64(x, d)) : d \in {60, DstShift(tz)} }

\* instants far from every transition: the epoch, both ends of the year
\* range, the turns of the sampled year
FarSamples ==
    { <<0, 0>>, <<90, 1>>,
      dateToMs(1970, 7, 1, 12, 0, 0),
      dateToMs(2024, 1, 1, 0, 0, 0), dateToMs(2024, 7, 1, 0, 0, 0),
      dateToMs(2024, 12, 31, 23, 30, 0), dateToMs(2025, 1, 1, 0, 30, 0),
      dateToMs(2500, 1, 1, 0, 0, 0), dateToMs(2500, 7, 1, 0, 0, 59),
      dateToMs(2500, 12, 31, 23, 59, 59) }

TransitionSamples(tz) ==
    Near(computeDstStartMs(2024, tz), tz) \cup Near(computeDstEndMs(2024, tz), tz)

UtcSamples ==
    [tz \in ValidRules |->
        IF tz.dst_start_month = 0 THEN FarSamples
        ELSE FarSamples \cup TransitionSamples(tz)]

LocalSamples ==
    [tz \in ValidRules |->
        IF tz.dst_start_month = 0 THEN FarSamples
        ELSE FarSamples
               \cup { Add64(u, tz.offset_min) : u \in TransitionSamples(tz) }]

\* 32-bit seconds <<m, c>> = m*60 + c: 0, 1,000,000,000, the second before
\* and at the 2020 threshold, 1,700,000,000, the 2024 transitions of tdEST,
\* the largest value, and with the bound the seconds after the threshold
SecExtra == 1

SecSamples ==
    { <<0, 0>>, <<16666666, 40>>, <<26297279, 59>>, <<28333333, 20>>,
      <<28500899, 59>>, <<28500900, 0>>, <<28843560, 0>>, <<71582788, 15>> }
      \cup { <<26297280, c>> : c \in 0..(SecExtra - 1) }

Rules32 == { tdEST, tdIST, DefaultTz }

\* the few instants used for explicit-rule calls between instance calls
FewSamples == { <<0, 0>>, dateToMs(2024, 7, 1, 0, 0, 0) }

\* the rules used for explicit-rule calls between instance calls
FewRules == { tdOdd, tdAEST }

\* a - b in minutes, as a signed number
Diff64(a, b) ==
    LET d == (a[1] - b[1]) % W64
    IN  IF 2 * (d \div 2) >= W64 - d THEN d - W64 ELSE d

---------------------------------------------------------------------------
(* State machine.  _tz and _cache are the instance's fields.  call records *)
(* the last operation: its name, the rule it used, its argument t, its     *)
(* preferDst argument, what it returned (ret a timestamp, ok a bool, off   *)
(* the offset the resolver returned), whether the resolver answered from   *)
(* the cache, and (src, chained) the argument of the call before when t is *)
(* that call's result under the same rule.  cold is the offset returned by *)
(* the lookup that filled the cache; configured is the last rule that      *)
(* setLocalTimezone accepted.                                              *)

Call(op, tz, t, pd, ret, ok, off, hit, src, chained) ==
    [op |-> op, tz |-> tz, t |-> t, pd |-> pd, ret |-> ret, ok |-> ok,
     off |-> off, hit |-> hit, src |-> src, chained |-> chained]

NoCold == [set |-> FALSE, off |-> 0]

\* the position inside getDstSwitchDay: the loop being run (pc), the
\* call's arguments, the locals switchDay and wd (lastWeekday in the backward
\* loop), the number of loop bodies run so far (iters), and the numbers of
\* loop bodies that dateToDays (months) and yearFromDays (probes) ran on the
\* way in
Scan(pc, year, month, tz, isStart, switchDay, wd, iters, months, probes) ==
    [pc |-> pc, year |-> year, month |-> month, tz |-> tz,
     isStart |-> isStart, switchDay |-> switchDay, wd |-> wd, iters |-> iters,
     months |-> months, probes |-> probes]

NoScan == Scan("idle", 1970, 1, DefaultTz, TRUE, 0, 0, 0, 0, 0)

Init ==
    /\ _tz = DefaultTz
    /\ _cache = EmptyCache
    /\ call = Call("construct", DefaultTz, <<0, 0>>, TRUE, <<0, 0>>, TRUE, 0,
                   FALSE, <<0, 0>>, FALSE)
    /\ cold = NoCold
    /\ configured = DefaultTz
    /\ scan = NoScan

Configure(tz) ==
    LET r == setLocalTimezone(tz, _tz, _cache)
    IN  /\ _tz' = r.tz
        /\ _cache' = r.cache
        /\ call' = Call("setLocalTimezone", tz, <<0, 0>>, TRUE, <<0, 0>>, r.ret,
                        0, FALSE, <<0, 0>>, FALSE)
        /\ cold' = IF r.ret THEN NoCold ELSE cold
        /\ configured' = IF r.ret THEN tz ELSE configured
        /\ UNCHANGED scan

UtcToLocal(utcMs) ==
    \E r \in { utcToLocal(utcMs, _tz, _cache) } :
    LET h == _tz.dst_start_month # 0 /\ cacheHit(utcMs, _cache)
        o == Diff64(r.ret, utcMs)
    IN  /\ _cache' = r.cache
        /\ call' = Call("utcToLocal", _tz, utcMs, TRUE, r.ret, TRUE, o, h,
                        <<0, 0>>, FALSE)
        /\ cold' = IF _tz.dst_start_month # 0 /\ ~h
                   THEN [set |-> TRUE, off |-> o] ELSE cold
        /\ UNCHANGED <<_tz, configured, scan>>

LocalToUtc(localMs, preferDst) ==
    \E r \in { localToUtc(localMs, _tz, _cache, preferDst) } :
    LET h == _tz.dst_start_month # 0
               /\ cacheHit(Sub64(localMs, _tz.offset_min), _cache)
        o == Diff64(localMs, r.ret)
    IN  /\ _cache' = r.cache
        /\ call' = Call("localToUtc", _tz, localMs, preferDst, r.ret, TRUE,
                        o, h, <<0, 0>>, FALSE)
        /\ cold' = IF _tz.dst_start_month # 0 /\ ~h
                   THEN [set |-> TRUE, off |-> o] ELSE cold
        /\ UNCHANGED <<_tz, configured, scan>>

UtcToLocalTz(utcMs, tz) ==
    LET ch == call.op = "localToUtcTz" /\ call.tz = tz /\ call.ret = utcMs
    IN  /\ call' = Call("utcToLocalTz", tz, utcMs, TRUE, utcToLocalTz(utcMs, tz),
                        TRUE, 0, FALSE,
                        IF ch THEN call.t ELSE <<0, 0>>, ch)
        /\ UNCHANGED <<_tz, _cache, cold, configured, scan>>

LocalToUtcTz(localMs, tz, preferDst) ==
    LET ch == call.op = "utcToLocalTz" /\ call.tz = tz /\ call.ret = localMs
    IN  /\ call' = Call("localToUtcTz", tz, localMs, preferDst,
                        localToUtcTz(localMs, tz, preferDst), TRUE, 0, FALSE,
                        IF ch THEN call.t ELSE <<0, 0>>, ch)
        /\ UNCHANGED <<_tz, _cache, cold, configured, scan>>

UtcToLocal32(utcSec) ==
    \E r \in { utcToLocal32(utcSec, _tz, _cache) } :
    LET k == normalize32(utcSec)
        h == _tz.dst_start_month # 0 /\ cacheHit(k, _cache)
        o == Diff64(r.ret, k)
    IN  /\ _cache' = r.cache
        /\ call' = Call("utcToLocal32", _tz, utcSec, TRUE, r.ret, TRUE, o, h,
                        <<0, 0>>, FALSE)
        /\ cold' = IF _tz.dst_start_month # 0 /\ ~h
                   THEN [set |-> TRUE, off |-> o] ELSE cold
        /\ UNCHANGED <<_tz, configured, scan>>

LocalToUtc32(localSec, preferDst) ==
    \E r \in { localToUtc32(localSec, _tz, _cache, preferDst) } :
    LET k == normalize32(localSec)
        h == _tz.dst_start_month # 0
               /\ cacheHit(Sub64(k, _tz.offset_min), _cache)
        o == Diff64(k, r.ret)
    IN  /\ _cache' = r.cache
        /\ call' = Call("localToUtc32", _tz, localSec, preferDst, r.ret, TRUE,
                        o, h, <<0, 0>>, FALSE)
        /\ cold' = IF _tz.dst_start_month # 0 /\ ~h
                   THEN [set |-> TRUE, off |-> o] ELSE cold
        /\ UNCHANGED <<_tz, configured, scan>>

UtcToLocal32Tz(utcSec, tz) ==
    /\ call' = Call("utcToLocal32Tz", tz, utcSec, TRUE,
                    utcToLocal32Tz(utcSec, tz), TRUE, 0, FALSE, <<0, 0>>, FALSE)
    /\ UNCHANGED <<_tz, _cache, cold, configured, scan>>

LocalToUtc32Tz(localSec, tz, preferDst) ==
    /\ call' = Call("localToUtc32Tz", tz, localSec, preferDst,
                    localToUtc32Tz(localSec, tz, preferDst), TRUE, 0, FALSE,
                    <<0, 0>>, FALSE)
    /\ UNCHANGED <<_tz, _cache, cold, configured, scan>>

\* the result of the call before, when it was the inverse conversion under tz
Chain(op, tz) == IF call.op = op /\ call.tz = tz THEN {call.ret} ELSE {}

Next ==
    \/ \E tz \in ValidRules \cup InvalidRules : Configure(tz)
    \/ \E utcMs \in UtcSamples[_tz] : UtcToLocal(utcMs)
    \/ \E localMs \in LocalSamples[_tz], preferDst \in BOOLEAN :
          LocalToUtc(localMs, preferDst)
    \/ \E tz \in FewRules, utcMs \in FewSamples : UtcToLocalTz(utcMs, tz)
    \/ \E tz \in FewRules, localMs \in FewSamples, preferDst \in BOOLEAN :
          LocalToUtcTz(localMs, tz, preferDst)

Spec == Init /\ [][Next]_vars

\* the explicit-rule overloads alone; a conversion may be fed the result of
\* the inverse conversion before it
\* the rules the explicit-rule overloads are called with
TzRules == {tdEST, tdAEST, tdTroll, tdOdd}

NextTz ==
    \/ \E tz \in TzRules :
          \E utcMs \in UtcSamples[tz] \cup Chain("localToUtcTz", tz) :
             UtcToLocalTz(utcMs, tz)
    \/ \E tz \in TzRules, preferDst \in BOOLEAN :
          \E localMs \in LocalSamples[tz] \cup Chain("utcToLocalTz", tz) :
             LocalToUtcTz(localMs, tz, preferDst)

SpecTz == Init /\ [][NextTz]_vars

\* the 32-bit seconds overloads on a configured instance
Next32 ==
    \/ \E tz \in Rules32 : Configure(tz)
    \/ \E utcSec \in SecSamples : UtcToLocal32(utcSec)
    \/ \E localSec \in SecSamples : LocalToUtc32(localSec, TRUE)
    \/ \E utcSec \in SecSamples, tz \in Rules32 : UtcToLocal32Tz(utcSec, tz)
    \/ \E localSec \in SecSamples, tz \in Rules32, preferDst \in BOOLEAN :
          LocalToUtc32Tz(localSec, tz, preferDst)

Spec32 == Init /\ [][Next32]_vars

---------------------------------------------------------------------------
(* Claims C1, C2: setLocalTimezone                                         *)

\* the rules C1 calls invalid
RuleRefused(tz) ==
    \/ tz.dst_start_month > 12
    \/ tz.dst_end_month > 12
    \/ (tz.dst_start_month # 0 /\ tz.dst_end_month = 0)

\* C1: setLocalTimezone called with an invalid rule (a month above 12, or a
\* start month without an end month) returns false and leaves the stored
\* rule and the cache exactly as they were, whatever calls came before.
C1_InvalidRuleLeavesState ==
    [][ (call'.op = "setLocalTimezone" /\ RuleRefused(call'.tz))
          => (call'.ok = FALSE /\ _tz' = _tz /\ _cache' = _cache) ]_vars

\* C1 witness: a refused rule, on an instance holding a DST rule and a
\* filled cache
C1_Witness ==
    /\ call.op = "setLocalTimezone"
    /\ RuleRefused(call.tz)
    /\ call.ok = FALSE
    /\ _tz = tdEST
    /\ _cache = DstCache(<<28500900, 0>>, <<28843560, 0>>, -240)

\* the rule invariant of the data model
RuleInvariant(tz) ==
    \/ (tz.dst_start_month = 0 /\ tz.dst_end_month = 0)
    \/ (tz.dst_start_month \in 1..12 /\ tz.dst_end_month \in 1..12)

\* C2 as stated: setLocalTimezone returns true exactly for the rules that
\* satisfy the rule invariant, so start month 0 with an end month is refused.
C2_AcceptsIffInvariant ==
    call.op = "setLocalTimezone" => (call.ok <=> RuleInvariant(call.tz))

\* C2 amended: setLocalTimezone returns true exactly when start month is 0
\* and end month is in 0..12, or both months are in 1..12; a rule with start
\* month 0 and an end month in 1..12 is accepted (and is a no-DST rule).
C2_AcceptsIffMonthsInRange ==
    call.op = "setLocalTimezone" =>
        (call.ok <=>
            \/ (call.tz.dst_start_month = 0 /\ call.tz.dst_end_month \in 0..12)
            \/ (call.tz.dst_start_month \in 1..12
                  /\ call.tz.dst_end_month \in 1..12))

\* C2 witness: start month 0 with end month 5 was accepted and stored
C2_Witness ==
    /\ call.op = "setLocalTimezone"
    /\ call.tz = tdOdd
    /\ call.ok = TRUE
    /\ _tz = tdOdd
    /\ ~RuleInvariant(_tz)

---------------------------------------------------------------------------
(* Claim C3: rules without DST                                             *)

\* t + min minutes, in the arithmetic of uint64_t
Shifted(t, min) == <<(t[1] + min) % W64, t[2]>>

\* C3: under a rule whose start month is 0 with standard offset O,
\* utcToLocal(t) is t + O * 60000 and localToUtc(t) is t - O * 60000 (in
\* 64-bit unsigned arithmetic) for every t, through the instance and through
\* the explicit-rule overloads alike; the cache is left as it was; and the
\* first conversion on a freshly constructed instance returns t.
C3_NoDstIsFixedOffset ==
    [][ /\ (call'.op = "utcToLocal" /\ _tz.dst_start_month = 0)
              => (call'.ret = Shifted(call'.t, _tz.offset_min)
                    /\ _cache' = _cache)
        /\ (call'.op = "localToUtc" /\ _tz.dst_start_month = 0)
              => (call'.ret = Shifted(call'.t, 0 - _tz.offset_min)
                    /\ _cache' = _cache)
        /\ (call'.op = "utcToLocalTz" /\ call'.tz.dst_start_month = 0)
              => (call'.ret = Shifted(call'.t, call'.tz.offset_min)
                    /\ _cache' = _cache)
        /\ (call'.op = "localToUtcTz" /\ call'.tz.dst_start_month = 0)
              => (call'.ret = Shifted(call'.t, 0 - call'.tz.offset_min)
                    /\ _cache' = _cache)
        /\ (call.op = "construct" /\ call'.op \in {"utcToLocal", "localToUtc"})
              => call'.ret = call'.t ]_vars

\* C3 witness: an instance conversion under a no-DST rule whose two offset
\* fields differ (-210 and -150)
C3_Witness ==
    /\ call.op = "utcToLocal"
    /\ _tz = tdOdd
    /\ call.t = <<28663200, 0>>
    /\ call.ret = <<28662990, 0>>
    /\ _cache = EmptyCache

---------------------------------------------------------------------------
(* Claims C4, C5: explicit-rule round trip and the fall-back overlap       *)

\* the years whose transitions lie next to the sampled instants
TransitionYears == {1970, 1971, 2023, 2024, 2025, 2499, 2500, 2501}

StartsOf == [tz \in DstRules |->
                {computeDstStartMs(y, tz) : y \in TransitionYears}]

EndsOf == [tz \in DstRules |->
              {computeDstEndMs(y, tz) : y \in TransitionYears}]

\* t is more than d minutes away from every transition of tz
Far(t, tz, d) ==
    \A x \in StartsOf[tz] \cup EndsOf[tz] :
        Lt64(Add64(x, d), t) \/ Lt64(t, Sub64(x, d))

\* the local time t is read twice when the clocks of tz go back
InOverlap(t, tz) ==
    /\ tz \in DstRules
    /\ \E e \in EndsOf[tz] :
          /\ Ge64(t, Add64(e, tz.offset_min))
          /\ Lt64(t, Add64(e, tz.offset_dst_min))

\* the larger of one hour and the DST shift of tz, in minutes
Margin(tz) == IF DstShift(tz) > 60 THEN DstShift(tz) ELSE 60

C5_PreferDstPicksReading ==
    /\ (call.op = "localToUtcTz" /\ InOverlap(call.t, call.tz))
          => /\ call.ret = Shifted(call.t,
                    0 - (IF call.pd THEN call.tz.offset_dst_min
                                    ELSE call.tz.offset_min))
             /\ Lt64(localToUtcTz(call.t, call.tz, TRUE),
                     localToUtcTz(call.t, call.tz, FALSE))
    /\ (call.op = "utcToLocalTz" /\ call.chained
            /\ InOverlap(call.src, call.tz))
          => InOverlap(call.ret, call.tz)

---------------------------------------------------------------------------
(* Claims C6, C7: the instance cache                                       *)

\* the instant an instance lookup compares with the cache interval
CacheKey(c, tz) ==
    IF c.op = "utcToLocal" THEN c.t ELSE Sub64(c.t, tz.offset_min)

\* C6 as stated: once a cold lookup has set the cache interval [a,b), every
\* later instance lookup (for UTC or for local time) under the same rule
\* whose instant lies in [a,b) returns the offset the cold lookup returned
\* and leaves the cache alone, and a lookup exactly at b misses.
C6_CacheSoundness ==
    [][ (call'.op \in {"utcToLocal", "localToUtc"} /\ _tz.dst_start_month # 0)
          => /\ cacheHit(CacheKey(call', _tz), _cache)
                  => (cold.set /\ call'.off = cold.off /\ _cache' = _cache)
             /\ CacheKey(call', _tz) = _cache.valid_until_ms
                  => ~call'.hit ]_vars

\* C7: whatever configure calls (accepted or refused), instance conversions
\* and explicit-rule conversions came before, the instance call
\* utcToLocal(t) returns what the explicit-rule call utcToLocal(t, R) returns
\* for the last accepted rule R (the default rule if none was accepted).
C7_NoStaleCache ==
    call.op = "utcToLocal" => call.ret = utcToLocalTz(call.t, configured)

\* C7 witness: an instance utcToLocal answered from the cache, with the
\* southern rule configured
C7_Witness ==
    /\ call.op = "utcToLocal"
    /\ call.hit
    /\ configured = tdAEST
    /\ call.t = <<28401120, 0>>
    /\ call.ret = <<28401780, 0>>

---------------------------------------------------------------------------
(* Claims C8, C9: transitions of 2024                                      *)

\* the wall-clock switch instants of 2024, in minutes since 1970-01-01 00:00
\* on the local clock: the clock before the switch, so standard time at the
\* start and DST at the end
\*   tdEST    2024-03-10 02:00   2024-11-03 02:00
\*   tdAEST   2024-10-06 02:00   2024-04-07 03:00
\*   tdCET    2024-03-31 02:00   2024-10-27 03:00
\*   tdTroll  2024-03-31 01:00   2024-10-27 03:00
SwitchLocal2024 ==
    [tz \in DstRules |->
        IF tz = tdEST THEN [start |-> 28500600, end |-> 28843320]
        ELSE IF tz = tdAEST THEN [start |-> 28803000, end |-> 28540980]
        ELSE IF tz = tdCET THEN [start |-> 28530840, end |-> 28833300]
        ELSE [start |-> 28530780, end |-> 28833300]]

\* the UTC transition instants of 2024 that follow from the wall-clock ones
Start2024(tz) == <<SwitchLocal2024[tz].start - tz.offset_min, 0>>
End2024(tz) == <<SwitchLocal2024[tz].end - tz.offset_dst_min, 0>>

\* C8: for the US Eastern rule the DST-start transition of 2024 is
\* 2024-03-10T07:00:00Z and the DST-end transition is 2024-11-03T06:00:00Z;
\* for every rule the start transition is the wall-clock switch instant
\* minus the standard offset and the end transition is the wall-clock switch
\* instant minus the DST offset, and these are the bounds a lookup in mid
\* 2024 leaves in the cache.
C8_Transitions2024 ==
    /\ computeDstStartMs(2024, tdEST) = <<28500900, 0>>
    /\ computeDstEndMs(2024, tdEST) = <<28843560, 0>>
    /\ \A tz \in DstRules :
          /\ computeDstStartMs(2024, tz) = Start2024(tz)
          /\ computeDstEndMs(2024, tz) = End2024(tz)
    /\ (call.op = "utcToLocal" /\ _tz \in DstRules
            /\ call.t = <<28663200, 0>>)
          => _cache = IF Lt64(Start2024(_tz), End2024(_tz))
                      THEN DstCache(Start2024(_tz), End2024(_tz),
                                    _tz.offset_dst_min)
                      ELSE DstCache(End2024(_tz), Start2024(_tz),
                                    _tz.offset_min)

\* C8 witness: a lookup on 2024-07-01 under the US Eastern rule has left the
\* two transitions of 2024 in the cache
C8_Witness ==
    /\ call.op = "utcToLocal"
    /\ _tz = tdEST
    /\ call.t = <<28663200, 0>>
    /\ _cache = DstCache(<<28500900, 0>>, <<28843560, 0>>, -240)
    /\ call.ret = <<28662960, 0>>

\* C9: under the Sydney rule the offset resolved for 2024-01-01T00:00Z is
\* +660 and for 2024-07-01T00:00Z is +600; within 2024 the DST offset
\* applies before the end transition and from the start transition on, and
\* the standard offset in between.
C9_SouthernOffsets ==
    (call.op = "utcToLocalTz" /\ call.tz = tdAEST)
        => /\ call.t = <<28401120, 0>> => call.ret = <<28401780, 0>>
           /\ call.t = <<28663200, 0>> => call.ret = <<28663800, 0>>
           /\ (Ge64(call.t, <<28401120, 0>>) /\ Lt64(call.t, <<28928160, 0>>))
                 => call.ret = Shifted(call.t,
                        IF Lt64(call.t, <<28540320, 0>>)
                           \/ Ge64(call.t, <<28802400, 0>>)
                        THEN 660 ELSE 600)

\* C9 witness: the conversion of 2024-01-01T00:00Z under the Sydney rule
C9_Witness ==
    /\ call.op = "utcToLocalTz"
    /\ call.tz = tdAEST
    /\ call.t = <<28401120, 0>>
    /\ call.ret = <<28401780, 0>>

---------------------------------------------------------------------------
(* Claim C10: the 32-bit overloads                                         *)

\* (s + 2^32) * 1000 below 1577836800 s (26297280 min), s * 1000 from there
\* on, for s = sec[1] * 60 + sec[2]; 2^32 s = 71582788 min 16 s
Extended(sec) ==
    IF sec[1] < 26297280
    THEN <<sec[1] + 71582788 + (sec[2] + 16) \div 60,
           ((sec[2] + 16) % 60) * 1000>>
    ELSE <<sec[1], sec[2] * 1000>>

\* C10: the 32-bit overloads convert (s + 2^32) * 1000 ms when
\* s < 1577836800 and s * 1000 ms otherwise (1000000000 is extended,
\* 1700000000 is not), without 32-bit overflow, and otherwise behave as the
\* millisecond overloads do on that value, cache included.
C10_Rollover32 ==
    [][ /\ normalize32(<<16666666, 40>>) = <<88249454, 56000>>
        /\ normalize32(<<28333333, 20>>) = <<28333333, 20000>>
        /\ call'.op = "utcToLocal32"
              => LET r == utcToLocal(Extended(call'.t), _tz, _cache)
                 IN  call'.ret = r.ret /\ _cache' = r.cache
        /\ call'.op = "localToUtc32"
              => LET r == localToUtc(Extended(call'.t), _tz, _cache, call'.pd)
                 IN  call'.ret = r.ret /\ _cache' = r.cache
        /\ call'.op = "utcToLocal32Tz"
              => (call'.ret = utcToLocalTz(Extended(call'.t), call'.tz)
                    /\ _cache' = _cache)
        /\ call'.op = "localToUtc32Tz"
              => (call'.ret = localToUtcTz(Extended(call'.t), call'.tz,
                                           call'.pd)
                    /\ _cache' = _cache) ]_vars

\* C10 witness: 1000000000 s converted under the +330 rule as
\* 5294967296000 ms
C10_Witness ==
    /\ call.op = "utcToLocal32Tz"
    /\ call.tz = tdIST
    /\ call.t = <<16666666, 40>>
    /\ call.ret = <<88249784, 56000>>

---------------------------------------------------------------------------
(* Claim C11: the instance path of localToUtc                              *)

\* C11: whatever conversions came before on the instance (cache hit or
\* miss), the instance call localToUtc(t) returns what the explicit-rule
\* call localToUtc(t, rule) returns for the instance's rule, so the DST
\* offset whenever t lies inside the local DST window, the fall-back overlap
\* included.
C11_InstanceLocalMatchesExplicit ==
    call.op = "localToUtc"
        => call.ret = localToUtcTz(call.t, configured, call.pd)

---------------------------------------------------------------------------
(* Claim C12: the interval a miss leaves in the cache                      *)

\* the transition instants of tz in the sampled years
TransitionsOf(tz) == StartsOf[tz] \cup EndsOf[tz]

\* C12: after a miss of the lookup for UTC under a DST rule, for t in the
\* supported years, the cache satisfies validFrom <= t < validUntil, its
\* two bounds are consecutive transitions of the rule, and its offset is the
\* DST offset exactly when validFrom is a DST-start transition; so a query
\* at the same instant afterwards is a hit.
C12_MissCachesSeason ==
    (call.op = "utcToLocal" /\ ~call.hit /\ _tz \in DstRules)
        => /\ Ge64(call.t, _cache.valid_from_ms)
           /\ Lt64(call.t, _cache.valid_until_ms)
           /\ _cache.valid_from_ms \in TransitionsOf(_tz)
           /\ _cache.valid_until_ms \in TransitionsOf(_tz)
           /\ \A x \in TransitionsOf(_tz) :
                 ~(Lt64(_cache.valid_from_ms, x)
                     /\ Lt64(x, _cache.valid_until_ms))
           /\ (_cache.current_offset = _tz.offset_dst_min)
                 <=> (_cache.valid_from_ms \in StartsOf[_tz])
           /\ (_cache.current_offset = _tz.offset_min)
                 <=> (_cache.valid_from_ms \in EndsOf[_tz])
           /\ cacheHit(call.t, _cache)

---------------------------------------------------------------------------
(* getDstSwitchDay, one loop body at a time                                *)

\* the cap on the loop bodies followed inside one call
MaxScanIters == 32

\* the number of bodies of for (m = 1; m < month; m++) in dateToDays
dateToDaysLoops(month) == IF month > 1 THEN month - 1 ELSE 0

\* the number of bodies of while (lo < hi) in yearFromDays
RECURSIVE yearFromDaysLoops(_, _, _, _)

yearFromDaysLoops(lo, hi, days, n) ==
    IF lo < hi
    THEN LET mid == lo + (hi - lo) \div 2
             y   == mid - 1970
         IN  IF y * 365 + leapsBefore(y) > days
             THEN yearFromDaysLoops(lo, mid, days, n + 1)
             ELSE yearFromDaysLoops(mid + 1, hi, days, n + 1)
    ELSE n

\* a conversion of utcMs under tz misses and enters getDstSwitchDay for the
\* year of utcMs: everything up to the first loop test
EnterSwitchDay(utcMs, tz, isStart) ==
    /\ scan.pc \in {"idle", "done"}
    /\ tz.dst_start_month # 0
    /\ LET year         == yearFromMs(utcMs)
           month        == IF isStart THEN tz.dst_start_month
                                      ELSE tz.dst_end_month
           targetWeek   == IF isStart THEN tz.dst_start_week
                                      ELSE tz.dst_end_week
           firstWeekday == getWeekdayFromDays(dateToDays(year, month, 1))
           daysInM      == getDaysInMonth(month, year)
           lastWeekday  == ((firstWeekday + daysInM - 1) % 7) % 256
           probes       == yearFromDaysLoops(1971, 2501, DaysOf(utcMs), 0)
       IN  scan' = IF targetWeek > 0
                   THEN Scan("forward", year, month, tz, isStart, 1,
                             firstWeekday, 0, dateToDaysLoops(month), probes)
                   ELSE Scan("backward", year, month, tz, isStart, daysInM,
                             lastWeekday, 0, dateToDaysLoops(month), probes)
    /\ UNCHANGED <<_tz, _cache, call, cold, configured>>

\* while (wd != tz.dst_weekday) { switchDay++; wd = (wd + 1) % 7; }
ForwardStep ==
    /\ scan.pc = "forward"
    /\ scan.wd # scan.tz.dst_weekday
    /\ scan.iters < MaxScanIters
    /\ scan' = [scan EXCEPT !.switchDay = (scan.switchDay + 1) % 256,
                            !.wd = (scan.wd + 1) % 7,
                            !.iters = scan.iters + 1]
    /\ UNCHANGED <<_tz, _cache, call, cold, configured>>

\* switchDay += 7 * (targetWeek - 1); return switchDay;
ForwardReturn ==
    /\ scan.pc = "forward"
    /\ scan.wd = scan.tz.dst_weekday
    /\ LET targetWeek == IF scan.isStart THEN scan.tz.dst_start_week
                                         ELSE scan.tz.dst_end_week
       IN  scan' = [scan EXCEPT
                      !.pc = "done",
                      !.switchDay = (scan.switchDay + 7 * (targetWeek - 1))
                                        % 256]
    /\ UNCHANGED <<_tz, _cache, call, cold, configured>>

\* while (lastWeekday != tz.dst_weekday) { switchDay--; lastWeekday = ...; }
BackwardStep ==
    /\ scan.pc = "backward"
    /\ scan.wd # scan.tz.dst_weekday
    /\ scan.iters < MaxScanIters
    /\ scan' = [scan EXCEPT !.switchDay = (scan.switchDay - 1) % 256,
                            !.wd = IF scan.wd = 0 THEN 6 ELSE scan.wd - 1,
                            !.iters = scan.iters + 1]
    /\ UNCHANGED <<_tz, _cache, call, cold, configured>>

\* return switchDay;
BackwardReturn ==
    /\ scan.pc = "backward"
    /\ scan.wd = scan.tz.dst_weekday
    /\ scan' = [scan EXCEPT !.pc = "done"]
    /\ UNCHANGED <<_tz, _cache, call, cold, configured>>

\* a rule whose switch weekday is 7, with a forward and a backward boundary
tdDay7 == TimezoneDefinition(3, 2, 11, 0, 7, 2, 2, -300, -240)

\* a rule whose switch weekday is Wednesday
tdWed == TimezoneDefinition(4, 1, 9, 0, 3, 2, 2, 120, 180)

ScanRules == {tdEST, tdCET, tdWed, tdDay7}

ScanSamples ==
    { <<0, 0>>, dateToMs(2024, 7, 1, 0, 0, 0),
      dateToMs(2500, 12, 31, 23, 59, 59) }

\* rules are configured between conversions; a conversion on the instance
\* scans under the configured rule, one on the explicit-rule path under the
\* rule it is given
NextScan ==
    \/ /\ scan.pc \in {"idle", "done"}
       /\ \E tz \in ScanRules : Configure(tz)
    \/ \E utcMs \in ScanSamples, tz \in {_tz} \cup ScanRules,
          isStart \in BOOLEAN : EnterSwitchDay(utcMs, tz, isStart)
    \/ ForwardStep
    \/ ForwardReturn
    \/ BackwardStep
    \/ BackwardReturn

SpecScan == Init /\ [][NextScan]_vars

\* C13: every conversion ends within a bounded number of steps for every
\* rule that setLocalTimezone accepts and every rule given on the
\* explicit-rule path: the forward weekday scan of getDstSwitchDay has ended
\* after 7 loop bodies and the backward scan after days-in-month loop
\* bodies, the month loop of dateToDays runs at most 12 times and the binary
\* search of yearFromDays at most 10 times.
C13_LoopsBounded ==
    /\ (scan.pc = "forward" /\ scan.iters >= 7)
          => scan.wd = scan.tz.dst_weekday
    /\ (scan.pc = "backward"
            /\ scan.iters >= getDaysInMonth(scan.month, scan.year))
          => scan.wd = scan.tz.dst_weekday
    /\ scan.months <= 12
    /\ scan.probes <= 10

---------------------------------------------------------------------------
(* Claim C14: getDstSwitchDay as a function of its arguments               *)

\* the span of consecutive years drawn from 1970 on
YearSpan == 28

\* the largest week-occurrence selector drawn
MaxWeek == 5

DayYears == 1970..(1970 + YearSpan) \cup {2000, 2024, 2100, 2400, 2499, 2500}

\* the arguments of one call: the rule carries the selector for the start
\* boundary and "last" for the end boundary
DayArgs ==
    { Scan("args", year, month,
           TimezoneDefinition(month, week, month, 0, wd, 2, 2, 0, 60),
           isStart, 0, 0, 0, 0, 0) :
        year \in DayYears, month \in 1..12, week \in (0 - 1)..MaxWeek,
        wd \in 0..6, isStart \in BOOLEAN }

InitDay ==
    /\ _tz = DefaultTz
    /\ _cache = EmptyCache
    /\ call = Call("construct", DefaultTz, <<0, 0>>, TRUE, <<0, 0>>, TRUE, 0,
                   FALSE, <<0, 0>>, FALSE)
    /\ cold = NoCold
    /\ configured = DefaultTz
    /\ scan \in DayArgs

\* getDstSwitchDay(year, month, tz, isStart) applied to the arguments drawn
GetDstSwitchDay ==
    /\ scan.pc = "args"
    /\ scan' = [scan EXCEPT
                  !.pc = "done",
                  !.switchDay = getDstSwitchDay(scan.year, scan.month,
                                                scan.tz, scan.isStart)]
    /\ UNCHANGED <<_tz, _cache, call, cold, configured>>

NextDay == GetDstSwitchDay

SpecDay == InitDay /\ [][NextDay]_vars

\* the Gregorian calendar, stated without day counts: days in a month and
\* the weekday of a date (0 = Sunday) by the month-key congruence
CalendarDays(month, year) ==
    IF month \in {4, 6, 9, 11} THEN 30
    ELSE IF month # 2 THEN 31
    ELSE IF (year % 4 = 0 /\ year % 100 # 0) \/ year % 400 = 0 THEN 29
    ELSE 28

MonthKey == <<0, 3, 2, 5, 0, 3, 5, 1, 4, 6, 2, 4>>

CalendarWeekday(year, month, day) ==
    LET y == IF month < 3 THEN year - 1 ELSE year
    IN  (y + y \div 4 - y \div 100 + y \div 400 + MonthKey[month] + day) % 7

\* the days of the month that fall on weekday wd
Occurrences(year, month, wd) ==
    { k \in 1..CalendarDays(month, year) :
        CalendarWeekday(year, month, k) = wd }

\* the selector the call reads
SelectorOf(sc) ==
    IF sc.isStart THEN sc.tz.dst_start_week ELSE sc.tz.dst_end_week

====
